---- MODULE Spec2Model ----
(***************************************************************************)
(* A model of the DXIL "preserve all outputs" function pass                *)
(* (lib/HLSL/DxilPreserveAllOutputs.cpp).                                  *)
(*                                                                         *)
(* The function under transformation is a sequence of basic blocks, each a *)
(* sequence of instructions.  Every instruction carries a uid, which       *)
(* stands for the address of the llvm::Instruction object (the pass keeps  *)
(* CallInst* and ReturnInst* pointers across its phases).  Operands that   *)
(* are other instructions are references to their uid.                     *)
(*                                                                         *)
(* runOnFunction is modelled phase by phase: each helper it calls is one   *)
(* action, taken in the order of the calls in the source.                  *)
(***************************************************************************)
EXTENDS Integers, Sequences, FiniteSets, TLC

VARIABLES
  F,             \* the function body being transformed
  F0,            \* the function body at the moment runOnFunction was entered
  pc,            \* position inside runOnFunction
  outputStores,  \* OutputVec: the collected OutputWrite objects
  outputMap,     \* OutputMap: sigID -> OutputElement (std::map, ordered by key)
  builder,       \* IRBuilder<>: its insertion point
  nextUid,       \* the next fresh instruction identity
  result,        \* the value returned by runOnFunction
  run,           \* number of the current invocation of the pass on F
  lastUnique,    \* ValueSymbolTable::LastUnique of the function's symbol table
  build          \* the LLVM build the pass is linked with

vars == <<F, F0, pc, outputStores, outputMap, builder, nextUid, result, run,
          lastUnique, build>>

----------------------------------------------------------------------------
(* Bounds of the model.                                                    *)

\* Longest instruction sequence drawn for the body of the entry block.
MaxBody == 2

\* Number of invocations of the pass over the same function.
MaxRuns == 2

----------------------------------------------------------------------------
(* Fixed-width integers (llvm::APInt), little-endian base-256 digits.      *)

NumBytes(w) == w \div 8

Byte(n, i) ==
  IF i = 1 THEN n % 256
  ELSE IF i = 2 THEN (n \div 256) % 256
  ELSE IF i = 3 THEN (n \div 65536) % 256
  ELSE IF i = 4 THEN (n \div 16777216) % 256
  ELSE 0

\* ConstantInt::get(type of width w, n): n reduced to w bits.
ConstInt(w, n) ==
  [w |-> w, bytes |-> [i \in 1..NumBytes(w) |-> Byte(n, i)]]

\* A 64-bit constant given by its high and low 32-bit halves.
ConstInt64(hi, lo) ==
  [w |-> 64,
   bytes |-> [i \in 1..8 |-> IF i <= 4 THEN Byte(lo, i) ELSE Byte(hi, i - 4)]]

RECURSIVE Carry(_, _, _)
\* Propagates carries through a sequence of digit sums, dropping the final
\* carry: arithmetic modulo 2^w.
Carry(sums, i, c) ==
  IF i > Len(sums) THEN <<>>
  ELSE <<(sums[i] + c) % 256>> \o Carry(sums, i + 1, (sums[i] + c) \div 256)

RECURSIVE SumProd(_, _, _, _)
SumProd(a, b, k, i) ==
  IF i > k THEN 0 ELSE a[i] * b[k - i + 1] + SumProd(a, b, k, i + 1)

\* IRBuilder::CreateTrunc on a constant.
CreateTrunc(a, w) ==
  [w |-> w, bytes |-> SubSeq(a.bytes, 1, NumBytes(w))]

\* IRBuilder::CreateZExt on a constant.
CreateZExt(a, w) ==
  [w |-> w,
   bytes |-> [i \in 1..NumBytes(w) |->
                IF i <= Len(a.bytes) THEN a.bytes[i] ELSE 0]]

\* IRBuilder::CreateMul on two constants of one type (wraps modulo 2^w).
CreateMul(a, b) ==
  [w |-> a.w,
   bytes |-> Carry([k \in 1..NumBytes(a.w) |-> SumProd(a.bytes, b.bytes, k, 1)], 1, 0)]

\* Whether the operands of a binary operator have two different types: the
\* builder asserts that they have not.
TypesDiffer(a, b) == a.w # b.w

\* The builds of LLVM that differ in what an addition of two constants of
\* different types yields, which the contract of the builder leaves open:
\*   "assert"    assertions compiled in: the type assertion of the builder
\*               fires and the compiler aborts;
\*   "sum"       assertions compiled out, a constant folder that adds the
\*               words of the operands at the width of the left one;
\*   "identity"  assertions compiled out, a constant folder that first
\*               returns the right operand as it is when the left one is the
\*               zero of its own type, and adds otherwise.
Builds == {"assert", "sum", "identity"}

IsZero(a) == \A k \in DOMAIN a.bytes : a.bytes[k] = 0

\* The sum of two constants at the width of the left one (APInt addition;
\* of the right operand the words that the left one has).
AddWords(a, b) ==
  [w |-> a.w,
   bytes |-> Carry([k \in 1..NumBytes(a.w) |->
                      a.bytes[k] + (IF k <= Len(b.bytes) THEN b.bytes[k] ELSE 0)],
                   1, 0)]

\* IRBuilder::CreateAdd on two constants, as folded by the build at hand.
\* On operands of one type every build yields their sum.  (In the build
\* with assertions operands of two types abort the pass, see
\* RedirectStores; the value is then never used.)
CreateAdd(a, b) ==
  IF build = "identity" /\ TypesDiffer(a, b) /\ IsZero(a)
    THEN b
    ELSE AddWords(a, b)

\* The element of an array slot of n elements that an index designates;
\* -1 when the index is outside the slot.
ElemIndex(idx, n) ==
  IF (\E k \in 2..Len(idx.bytes) : idx.bytes[k] # 0) \/ idx.bytes[1] >= n
    THEN -1
    ELSE idx.bytes[1]

----------------------------------------------------------------------------
(* The signature tables of the DxilModule.                                 *)

SigElement(id, rows, cols, patch, name) ==
  [id |-> id, rows |-> rows, cols |-> cols, compType |-> "f32",
   patchConstant |-> patch, name |-> name]

\* DM.GetOutputSignature(): element 0 is a 1x2 vector, element 1 a 2x3 matrix.
OutputSignature ==
  (0 :> SigElement(0, 1, 2, FALSE, "SV_Target")) @@
  (1 :> SigElement(1, 2, 3, FALSE, "TEXCOORD"))

\* DM.GetPatchConstantSignature(): elements 0 and 1 are scalars.
PatchConstantSignature ==
  (0 :> SigElement(0, 1, 1, TRUE, "SV_TessFactor")) @@
  (1 :> SigElement(1, 1, 1, TRUE, "SV_InsideTessFactor"))

----------------------------------------------------------------------------
(* Instructions.                                                           *)

Arg(name) == [kind |-> "arg", name |-> name]
Ref(uid) == [kind |-> "ref", uid |-> uid]

\* A call of dx.op.storeOutput / dx.op.storePatchConstant:
\* operands (opcode, sigID, row, col, value).
StoreCall(op, id, row, col, val) ==
  [kind |-> "call", op |-> op, id |-> id, row |-> row, col |-> col,
   val |-> val, ty |-> "f32"]

\* Any instruction the pass does not look at.
Other(tag) == [kind |-> "other", tag |-> tag]

Ret == [kind |-> "ret"]
Br(targets) == [kind |-> "br", targets |-> targets]

WithUid(inst, uid) == inst @@ [uid |-> uid]

\* DxilInst_StoreOutput(inst)
IsStoreOutput(inst) == inst.kind = "call" /\ inst.op = "StoreOutput"

\* DxilInst_StorePatchConstant(inst)
IsStorePatchConstant(inst) == inst.kind = "call" /\ inst.op = "StorePatchConstant"

RECURSIVE Flatten(_, _)
\* inst_begin(F) .. inst_end(F): all instructions, block after block.
Flatten(fn, b) ==
  IF b > Len(fn) THEN <<>> ELSE fn[b] \o Flatten(fn, b + 1)

Insts(fn) == Flatten(fn, 1)

\* The instruction a pointer designates.
Deref(fn, uid) ==
  LET all == Insts(fn)
  IN  all[CHOOSE i \in DOMAIN all : all[i].uid = uid]

HasInst(fn, uid) == \E i \in DOMAIN Insts(fn) : Insts(fn)[i].uid = uid

\* IRBuilder::Insert with the insertion point at instruction ip: the new
\* instructions go immediately before ip, in the order of their creation.
InsertBefore(fn, ip, news) ==
  [b \in DOMAIN fn |->
     IF \E i \in DOMAIN fn[b] : fn[b][i].uid = ip
       THEN LET i == CHOOSE j \in DOMAIN fn[b] : fn[b][j].uid = ip
            IN  SubSeq(fn[b], 1, i - 1) \o news \o SubSeq(fn[b], i, Len(fn[b]))
       ELSE fn[b]]

\* Instruction::eraseFromParent
EraseFromParent(fn, uid) ==
  [b \in DOMAIN fn |-> SelectSeq(fn[b], LAMBDA x : x.uid # uid)]

----------------------------------------------------------------------------
(* class OutputWrite                                                       *)

\* OutputWrite::OutputWrite(CallInst *call)
OutputWrite(uid) == [call |-> uid]

\* OutputWrite::GetSignatureID
GetSignatureID(fn, w) == Deref(fn, w.call).id

\* OutputWrite::GetSignatureElement: the table is chosen by the kind of the
\* call, the element by the numeric identifier.
GetSignatureElement(fn, w) ==
  IF IsStorePatchConstant(Deref(fn, w.call))
    THEN PatchConstantSignature[GetSignatureID(fn, w)]
    ELSE OutputSignature[GetSignatureID(fn, w)]

GetStore(w) == w.call
GetValue(fn, w) == Deref(fn, w.call).val
GetRow(fn, w) == Deref(fn, w.call).row
GetColumn(fn, w) == Deref(fn, w.call).col

----------------------------------------------------------------------------
(* class OutputElement                                                     *)

\* OutputElement::OutputElement: m_Alloca is not set by the constructor
\* (0 stands for the pointer not yet assigned).
OutputElement(elem) ==
  [elem |-> elem, rows |-> elem.rows, cols |-> elem.cols, alloca |-> 0]

NumElements(oe) == oe.rows * oe.cols

IsSingleElement(oe) == oe.rows = 1 /\ oe.cols = 1

\* The names of the values of a function (its symbol table).  Only the
\* slots are kept by name: no other value of the functions considered has
\* the name of a signature element.
ValueNames(fn) ==
  {Insts(fn)[k].name : k \in {j \in DOMAIN Insts(fn) : Insts(fn)[j].kind = "alloca"}}

RECURSIVE MakeUniqueName(_, _, _)
\* ValueSymbolTable: a name already taken gets the next value of the
\* table's counter appended, until the result is free.
MakeUniqueName(name, taken, last) ==
  LET cand == name \o ToString(last + 1)
  IN  IF cand \notin taken
        THEN [name |-> cand, last |-> last + 1]
        ELSE MakeUniqueName(name, taken, last + 1)

\* Value::setName through the symbol table: the name asked for if it is
\* free, a unique variant of it otherwise; and the counter afterwards.
UniqueName(name, taken, last) ==
  IF name \notin taken
    THEN [name |-> name, last |-> last]
    ELSE MakeUniqueName(name, taken, last)

\* OutputElement::CreateAlloca: the alloca instruction it builds, under the
\* name the symbol table grants for m_OutputElement.GetName().
CreateAlloca(oe, uid, name) ==
  [kind |-> "alloca", uid |-> uid,
   isArray |-> ~IsSingleElement(oe),
   n |-> IF IsSingleElement(oe) THEN 1 ELSE NumElements(oe),
   elemTy |-> oe.elem.compType,
   name |-> name]

\* OutputElement::GetAsI32
GetAsI32(col) ==
  IF col.w # 32
    THEN IF col.w > 32 THEN CreateTrunc(col, 32) ELSE CreateZExt(col, 32)
    ELSE col

\* OutputElement::CreateGEP: the index operand of the getelementptr.  The
\* row and column operands of the writes considered are constants: the
\* multiplication and the addition are folded by the builder and only the
\* getelementptr is inserted.  (Operands that are not constants, for which
\* the builder inserts the multiplication, the addition and the conversion
\* as instructions before the getelementptr, are not among the inputs.)
GEPIndex(oe, row, col) ==
  LET rowStride == ConstInt(row.w, oe.cols)
      rowOffset == CreateMul(row, rowStride)
  IN  CreateAdd(rowOffset, GetAsI32(col))

CreateGEP(oe, row, col, uid) ==
  [kind |-> "gep", uid |-> uid, base |-> oe.alloca, index |-> GEPIndex(oe, row, col)]

\* OutputElement::GetTempAddr: the instructions inserted to form the address
\* (none for a single element: the alloca itself is the address).
GetTempAddr(oe, row, col, uid) ==
  IF IsSingleElement(oe) THEN <<>> ELSE <<CreateGEP(oe, row, col, uid)>>

\* The address operand that GetTempAddr returns.
TempAddrOperand(oe, uid) ==
  IF IsSingleElement(oe) THEN oe.alloca ELSE uid

\* Number of instructions one address computation inserts.
AddrLen(oe) == IF IsSingleElement(oe) THEN 0 ELSE 1

\* OutputElement::StoreTemp: the inserted instructions, numbered from uid.
StoreTemp(oe, row, col, value, uid) ==
  GetTempAddr(oe, row, col, uid) \o
  <<[kind |-> "store", uid |-> uid + AddrLen(oe), val |-> value,
     addr |-> TempAddrOperand(oe, uid)]>>

\* OutputElement::LoadTemp
LoadTemp(oe, row, col, uid) ==
  GetTempAddr(oe, row, col, uid) \o
  <<[kind |-> "load", uid |-> uid + AddrLen(oe),
     addr |-> TempAddrOperand(oe, uid)]>>

\* OutputElement::GetOutputOpCode
GetOutputOpCode(oe) ==
  IF oe.elem.patchConstant THEN "StorePatchConstant" ELSE "StoreOutput"

\* OutputElement::StoreOutput(builder, DM, row, col): load of the slot and
\* call of the store primitive, numbered from uid.
StoreOutputAt(oe, row, col, uid) ==
  LET rowV == ConstInt(32, row)
      colV == ConstInt(8, col)
  IN  LoadTemp(oe, rowV, colV, uid) \o
      <<[kind |-> "call", uid |-> uid + AddrLen(oe) + 1,
         op |-> GetOutputOpCode(oe), id |-> oe.elem.id,
         row |-> rowV, col |-> colV,
         val |-> Ref(uid + AddrLen(oe)), ty |-> oe.elem.compType]>>

\* Instructions one StoreOutputAt inserts.
StoreOutputLen(oe) == AddrLen(oe) + 2

RECURSIVE StoreOutputLoop(_, _, _, _)
\* OutputElement::StoreOutput(builder, DM): rows outermost, columns innermost.
StoreOutputLoop(oe, row, col, uid) ==
  IF row >= oe.rows THEN <<>>
  ELSE IF col >= oe.cols THEN StoreOutputLoop(oe, row + 1, 0, uid)
  ELSE StoreOutputAt(oe, row, col, uid) \o
       StoreOutputLoop(oe, row, col + 1, uid + StoreOutputLen(oe))

StoreOutput(oe, uid) == StoreOutputLoop(oe, 0, 0, uid)

----------------------------------------------------------------------------
(* class DxilPreserveAllOutputs                                            *)

\* Mutation: a store whose value is a load inserted by the pass is taken for
\* a materialized one and not collected.
CollectOriginalStoresOnly(fn) ==
  LET all   == Insts(fn)
      calls == SelectSeq(all, LAMBDA i : (IsStoreOutput(i) \/ IsStorePatchConstant(i))
                                         /\ i.val.kind # "ref")
  IN  [k \in DOMAIN calls |-> OutputWrite(calls[k].uid)]

\* collectOutputStores
CollectOutputStores(fn) ==
  LET all   == Insts(fn)
      calls == SelectSeq(all, LAMBDA i : IsStoreOutput(i) \/ IsStorePatchConstant(i))
  IN  [k \in DOMAIN calls |-> OutputWrite(calls[k].uid)]

RECURSIVE GenerateOutputMapLoop(_, _, _, _)
GenerateOutputMapLoop(fn, calls, k, map) ==
  IF k > Len(calls) THEN map
  ELSE LET sigID == GetSignatureID(fn, calls[k])
       IN  IF sigID \in DOMAIN map
             THEN GenerateOutputMapLoop(fn, calls, k + 1, map)
             ELSE GenerateOutputMapLoop(fn, calls, k + 1,
                    map @@ (sigID :> OutputElement(GetSignatureElement(fn, calls[k]))))

\* Mutation: every write re-resolves the entry of its identifier, so the last
\* write to an identifier decides its descriptor.
GenerateOutputMapLastWins(fn, calls) ==
  LET ids == {GetSignatureID(fn, calls[k]) : k \in DOMAIN calls}
      last(id) == CHOOSE k \in DOMAIN calls :
                    /\ GetSignatureID(fn, calls[k]) = id
                    /\ \A j \in (k + 1)..Len(calls) : GetSignatureID(fn, calls[j]) # id
  IN  [id \in ids |-> OutputElement(GetSignatureElement(fn, calls[last(id)]))]

\* generateOutputMap
GenerateOutputMap(fn, calls) == GenerateOutputMapLoop(fn, calls, 1, << >>)

RECURSIVE SortedKeys(_)
\* Iteration order of std::map<unsigned, ...>: ascending keys.
SortedKeys(S) ==
  IF S = {} THEN <<>>
  ELSE LET m == CHOOSE x \in S : \A y \in S : x <= y
       IN  <<m>> \o SortedKeys(S \ {m})

\* createTempAllocas: every entry gets its alloca; the allocas are inserted at
\* the builder's insertion point in the order of the map.
AllocaUid(map, key, uid) ==
  uid + Cardinality({k \in DOMAIN map : k < key})

CreateTempAllocasMap(map, uid) ==
  [key \in DOMAIN map |-> [map[key] EXCEPT !.alloca = AllocaUid(map, key, uid)]]

RECURSIVE CreateTempAllocasLoop(_, _, _, _, _, _)
\* createTempAllocas, the loop from keys[k] on: the allocas built, each
\* named against the names taken so far, and the counter of the symbol
\* table afterwards.
CreateTempAllocasLoop(map, keys, k, uid, taken, last) ==
  IF k > Len(keys) THEN [insts |-> <<>>, last |-> last]
  ELSE LET u    == UniqueName(map[keys[k]].elem.name, taken, last)
           rest == CreateTempAllocasLoop(map, keys, k + 1, uid + 1,
                                         taken \cup {u.name}, u.last)
       IN  [insts |-> <<CreateAlloca(map[keys[k]], uid, u.name)>> \o rest.insts,
            last  |-> rest.last]

CreateTempAllocasInsts(fn, map, uid, last) ==
  CreateTempAllocasLoop(map, SortedKeys(DOMAIN map), 1, uid, ValueNames(fn), last)

\* The instructions insertTempOutputStores puts before one collected write.
TempStoreOf(fn, map, w, uid) ==
  StoreTemp(map[GetSignatureID(fn, w)], GetRow(fn, w), GetColumn(fn, w),
            GetValue(fn, w), uid)

\* Mutation: the redirected store is put at the end of the block of the
\* write, before its terminator, instead of at the write itself.
TempStoreAtBlockEnd(fn, w) ==
  LET b == CHOOSE x \in DOMAIN fn : \E i \in DOMAIN fn[x] : fn[x][i].uid = GetStore(w)
  IN  fn[b][Len(fn[b])].uid

\* builder.SetInsertPoint(outputWrite.GetStore()), line 267
TempStoreInsertPoint(fn, w) == GetStore(w)

RECURSIVE InsertTempOutputStoresLoop(_, _, _, _, _)
\* insertTempOutputStores: [fn, uid] after the writes k.. have been handled.
InsertTempOutputStoresLoop(fn, writes, map, k, uid) ==
  IF k > Len(writes) THEN [fn |-> fn, uid |-> uid]
  ELSE LET news == TempStoreOf(fn, map, writes[k], uid)
       IN  InsertTempOutputStoresLoop(
             InsertBefore(fn, TempStoreInsertPoint(fn, writes[k]), news),
             writes, map, k + 1, uid + Len(news))

InsertTempOutputStores(fn, writes, map, uid) ==
  InsertTempOutputStoresLoop(fn, writes, map, 1, uid)

\* Whether the address computation of some redirected write adds operands
\* of two different types (CreateGEP, line 151).
SomeIllTypedAddr(fn, writes, map) ==
  \E k \in DOMAIN writes :
    LET oe  == map[GetSignatureID(fn, writes[k])]
        row == GetRow(fn, writes[k])
    IN  ~IsSingleElement(oe) /\
        TypesDiffer(CreateMul(row, ConstInt(row.w, oe.cols)),
                    GetAsI32(GetColumn(fn, writes[k])))

\* Mutation: only the first return instruction is found.
FindFirstReturn(fn) ==
  LET rets == SelectSeq(Insts(fn), LAMBDA i : i.kind = "ret")
  IN  IF rets = <<>> THEN <<>> ELSE <<rets[1].uid>>

\* insertFinalOutputStores, first loop: the return instructions in order.
FindReturns(fn) ==
  LET rets == SelectSeq(Insts(fn), LAMBDA i : i.kind = "ret")
  IN  [k \in DOMAIN rets |-> rets[k].uid]

RECURSIVE FinalStoresForReturn(_, _, _, _)
\* insertFinalOutputStores, inner loop: the stores of all map entries from
\* keys[k] on, numbered from uid.
FinalStoresForReturn(map, keys, k, uid) ==
  IF k > Len(keys) THEN <<>>
  ELSE LET news == StoreOutput(map[keys[k]], uid)
       IN  news \o FinalStoresForReturn(map, keys, k + 1, uid + Len(news))

RECURSIVE InsertFinalOutputStoresLoop(_, _, _, _, _)
InsertFinalOutputStoresLoop(fn, returns, map, k, uid) ==
  IF k > Len(returns) THEN [fn |-> fn, uid |-> uid]
  ELSE LET news == FinalStoresForReturn(map, SortedKeys(DOMAIN map), 1, uid)
       IN  InsertFinalOutputStoresLoop(
             InsertBefore(fn, returns[k], news),
             returns, map, k + 1, uid + Len(news))

\* insertFinalOutputStores
InsertFinalOutputStores(fn, map, uid) ==
  InsertFinalOutputStoresLoop(fn, FindReturns(fn), map, 1, uid)

RECURSIVE RemoveOriginalOutputStoresLoop(_, _, _)
RemoveOriginalOutputStoresLoop(fn, writes, k) ==
  IF k > Len(writes) THEN fn
  ELSE RemoveOriginalOutputStoresLoop(
         EraseFromParent(fn, GetStore(writes[k])), writes, k + 1)

\* removeOriginalOutputStores: the function body after the erasures.
RemoveOriginalOutputStores(fn, writes) ==
  RemoveOriginalOutputStoresLoop(fn, writes, 1)

\* OutputWrite::DeleteStore leaves m_Call null.
DeleteStore(w) == [w EXCEPT !.call = 0]

\* Mutation: the pass always reports a change.
RunOnFunctionResultTrue(changed) == TRUE

\* The value of the return statements of runOnFunction (lines 214 and 223):
\* false on both.
RunOnFunctionResult(changed) == FALSE

----------------------------------------------------------------------------
(* Input functions.                                                        *)

I32(n) == ConstInt(32, n)
I8(n) == ConstInt(8, n)

\* The instructions input functions are drawn from.  Row operands are i32
\* and column operands i8, as in the calls StoreOutput itself builds
\* (lines 163-164).
Pool ==
  { StoreCall("StoreOutput", 1, I32(1), I8(0), Arg("a")),
    StoreCall("StoreOutput", 1, I32(1), I8(0), Arg("b")),
    StoreCall("StoreOutput", 0, I32(0), I8(1), Arg("a")),
    StoreCall("StorePatchConstant", 1, I32(0), I8(0), Arg("b")),
    Other("x") }

SeqsUpTo(S, n) == UNION {[1..k -> S] : k \in 0..n}

Bodies == SeqsUpTo(Pool, MaxBody)

Tails == {<<>>} \cup {<<i>> : i \in Pool}

\* Control-flow shapes: one block; a branch to two returning blocks; a
\* branch to two blocks that join in one returning block.
Shapes(body, t1, t2) ==
  { <<body \o <<Ret>>>>,
    <<body \o <<Br({2, 3})>>, t1 \o <<Ret>>, t2 \o <<Ret>>>>,
    <<body \o <<Br({2, 3})>>, t1 \o <<Br({4})>>, t2 \o <<Br({4})>>, <<Ret>>>> }

RECURSIVE LenBefore(_, _)
LenBefore(fn, b) == IF b <= 1 THEN 0 ELSE Len(fn[b - 1]) + LenBefore(fn, b - 1)

\* Gives every instruction its identity, in program order.
AssignUids(fn) ==
  [b \in DOMAIN fn |-> [i \in DOMAIN fn[b] |-> WithUid(fn[b][i], LenBefore(fn, b) + i)]]

InputFunctions ==
  {AssignUids(fn) : fn \in UNION {Shapes(body, t1, t2) : body \in Bodies, t1 \in Tails, t2 \in Tails}}

\* Functions whose single write has row and column operands of several
\* integer widths, to the 2x3 output; and one function without writes.
IdxRows ==
  {ConstInt(8, 0), ConstInt(8, 1), ConstInt(16, 1), I32(0), I32(1), ConstInt64(0, 1)}
IdxCols == {I8(2), I8(200), ConstInt(16, 1), I32(2), ConstInt64(1, 2)}

IdxFunctions ==
  {AssignUids(<<<<StoreCall("StoreOutput", 1, r, c, Arg("a")), Ret>>>>) :
     r \in IdxRows, c \in IdxCols}
  \cup {AssignUids(<<<<Other("x"), Ret>>>>)}

\* Functions for repeated invocation.
ReinvokeFunctions ==
  {AssignUids(fn) : fn \in UNION {Shapes(<<i>>, t1, <<>>) : i \in Pool, t1 \in Tails}}

----------------------------------------------------------------------------
(* The state machine.                                                      *)

InitWith(fns) ==
  /\ F \in fns
  /\ F0 = F
  /\ pc = "start"
  /\ outputStores = <<>>
  /\ outputMap = << >>
  /\ builder = [insertPt |-> 0]
  /\ nextUid = Len(Insts(F)) + 1
  /\ result = FALSE
  /\ run = 1
  /\ lastUnique = 0
  /\ build \in Builds

Init == InitWith(InputFunctions)

\* runOnFunction, line 212
Collect ==
  /\ pc = "start"
  /\ outputStores' = CollectOutputStores(F)
  /\ pc' = "collected"
  /\ UNCHANGED <<F, F0, outputMap, builder, nextUid, result, run, lastUnique, build>>

\* runOnFunction, lines 213-214
ReturnEmpty ==
  /\ pc = "collected"
  /\ outputStores = <<>>
  /\ result' = RunOnFunctionResult(FALSE)
  /\ pc' = "done"
  /\ UNCHANGED <<F, F0, outputStores, outputMap, builder, nextUid, run, lastUnique, build>>

\* runOnFunction, lines 216-217: the builder is placed at the first
\* insertion point of the entry block, then the registry is built.
GenerateMap ==
  /\ pc = "collected"
  /\ outputStores # <<>>
  /\ builder' = [insertPt |-> F[1][1].uid]
  /\ outputMap' = GenerateOutputMap(F, outputStores)
  /\ pc' = "mapped"
  /\ UNCHANGED <<F, F0, outputStores, nextUid, result, run, lastUnique, build>>

\* runOnFunction, line 218
CreateTempAllocas ==
  /\ pc = "mapped"
  /\ LET r == CreateTempAllocasInsts(F, outputMap, nextUid, lastUnique)
     IN  /\ F' = InsertBefore(F, builder.insertPt, r.insts)
         /\ lastUnique' = r.last
  /\ outputMap' = CreateTempAllocasMap(outputMap, nextUid)
  /\ nextUid' = nextUid + Cardinality(DOMAIN outputMap)
  /\ pc' = "allocated"
  /\ UNCHANGED <<F0, outputStores, builder, result, run, build>>

\* runOnFunction, line 219.  An address computation that adds operands of
\* two types trips the builder's assertion in the build with assertions; in
\* the other builds the index is what the folder of the build yields.
RedirectStores ==
  /\ pc = "allocated"
  /\ IF build = "assert" /\ SomeIllTypedAddr(F, outputStores, outputMap)
       THEN /\ pc' = "aborted"
            /\ UNCHANGED <<F, nextUid, builder>>
       ELSE LET r == InsertTempOutputStores(F, outputStores, outputMap, nextUid)
            IN  /\ F' = r.fn
                /\ nextUid' = r.uid
                /\ builder' = [insertPt |-> GetStore(outputStores[Len(outputStores)])]
                /\ pc' = "redirected"
  /\ UNCHANGED <<F0, outputStores, outputMap, result, run, lastUnique, build>>

\* runOnFunction, line 220
MaterializeStores ==
  /\ pc = "redirected"
  /\ LET r    == InsertFinalOutputStores(F, outputMap, nextUid)
         rets == FindReturns(F)
     IN  /\ F' = r.fn
         /\ nextUid' = r.uid
         /\ builder' = IF rets = <<>> THEN builder
                       ELSE [insertPt |-> rets[Len(rets)]]
  /\ pc' = "materialized"
  /\ UNCHANGED <<F0, outputStores, outputMap, result, run, lastUnique, build>>

\* runOnFunction, lines 221-223
RemoveStores ==
  /\ pc = "materialized"
  /\ F' = RemoveOriginalOutputStores(F, outputStores)
  /\ outputStores' = [k \in DOMAIN outputStores |-> DeleteStore(outputStores[k])]
  /\ result' = RunOnFunctionResult(TRUE)
  /\ pc' = "done"
  /\ UNCHANGED <<F0, outputMap, builder, nextUid, run, lastUnique, build>>

\* The host runs the pass once more over the same function: a new
\* invocation, whose locals start empty.
Reinvoke ==
  /\ pc = "done"
  /\ run < MaxRuns
  /\ run' = run + 1
  /\ F0' = F
  /\ pc' = "start"
  /\ outputStores' = <<>>
  /\ outputMap' = << >>
  /\ builder' = [insertPt |-> 0]
  /\ result' = FALSE
  /\ UNCHANGED <<F, nextUid, lastUnique, build>>

Next ==
  \/ Collect
  \/ ReturnEmpty
  \/ GenerateMap
  \/ CreateTempAllocas
  \/ RedirectStores
  \/ MaterializeStores
  \/ RemoveStores

Spec == Init /\ [][Next]_vars

InitIdx == InitWith(IdxFunctions)

SpecIdx == InitIdx /\ [][Next]_vars

InitReinvoke == InitWith(ReinvokeFunctions)

NextReinvoke == Next \/ Reinvoke

SpecReinvoke == InitReinvoke /\ [][NextReinvoke]_vars

----------------------------------------------------------------------------
(* Vocabulary of the properties: what a function body contains and what it *)
(* computes along a path.  None of it is used by the actions.              *)

Calls(fn) == SelectSeq(Insts(fn), LAMBDA i : i.kind = "call")

HasWrites(fn) == Calls(fn) # <<>>

\* The outputs written in fn: a category and a numeric identifier.
Outputs(fn) == {[op |-> Calls(fn)[k].op, id |-> Calls(fn)[k].id] : k \in DOMAIN Calls(fn)}

WrittenIds(fn) == {Calls(fn)[k].id : k \in DOMAIN Calls(fn)}

\* The declared element of an output, from the table of its own category.
Descriptor(o) ==
  IF o.op = "StorePatchConstant"
    THEN PatchConstantSignature[o.id]
    ELSE OutputSignature[o.id]

FirstWrite(fn, id) ==
  LET cs == Calls(fn)
      k  == CHOOSE i \in DOMAIN cs :
              cs[i].id = id /\ \A j \in 1..(i - 1) : cs[j].id # id
  IN  cs[k]

FirstDescriptor(fn, id) ==
  Descriptor([op |-> FirstWrite(fn, id).op, id |-> id])

RetBlocks(fn) == {b \in DOMAIN fn : fn[b][Len(fn[b])].kind = "ret"}

Coords(d) == (0..(d.rows - 1)) \X (0..(d.cols - 1))

\* Positions in block b of the output-stores of coordinate (r, c) of output o.
StoresAt(fn, b, o, r, c) ==
  {i \in DOMAIN fn[b] :
     /\ fn[b][i].kind = "call"
     /\ fn[b][i].op = o.op
     /\ fn[b][i].id = o.id
     /\ fn[b][i].row = ConstInt(32, r)
     /\ fn[b][i].col = ConstInt(8, c)}

\* Uids of the instructions of fn that are not instructions of old.
IsNew(old, inst) == ~HasInst(old, inst.uid)

NewOfKind(old, fn, kind) ==
  SelectSeq(Insts(fn), LAMBDA i : i.kind = kind /\ IsNew(old, i))

\* The alloca a store or load instruction addresses.
SlotOf(fn, inst) ==
  LET a == Deref(fn, inst.addr)
  IN  IF a.kind = "alloca" THEN a.uid ELSE a.base

RECURSIVE TotalCoords(_, _)
\* Sum of rows * columns over the first-resolved descriptors of the ids.
TotalCoords(fn, ids) ==
  IF ids = {} THEN 0
  ELSE LET id == CHOOSE x \in ids : TRUE
           d  == FirstDescriptor(fn, id)
       IN  d.rows * d.cols + TotalCoords(fn, ids \ {id})

\* The low 32 bits of an integer operand, zero-filled above its width.
Norm32(v) ==
  [w |-> 32, bytes |-> [i \in 1..4 |-> IF i <= Len(v.bytes) THEN v.bytes[i] ELSE 0]]

(* Execution of a function body along a path of blocks. *)

Undef == [kind |-> "undef"]

Eval(val, env) == IF val.kind = "ref" THEN env[val.uid] ELSE val

Addr(a, st) ==
  IF a \in DOMAIN st.mem THEN [base |-> a, elem |-> 0] ELSE st.env[a]

Step(i, st) ==
  CASE i.kind = "alloca" ->
         [st EXCEPT !.mem = (i.uid :> [e \in 0..(i.n - 1) |-> Undef]) @@ @]
    [] i.kind = "gep" ->
         [st EXCEPT !.env =
            (i.uid :> [base |-> i.base,
                       elem |-> ElemIndex(i.index, Cardinality(DOMAIN st.mem[i.base]))]) @@ @]
    [] i.kind = "store" ->
         LET a == Addr(i.addr, st)
         IN  [st EXCEPT !.mem[a.base][a.elem] = Eval(i.val, st.env)]
    [] i.kind = "load" ->
         LET a == Addr(i.addr, st)
         IN  [st EXCEPT !.env = (i.uid :> st.mem[a.base][a.elem]) @@ @]
    [] i.kind = "call" ->
         [st EXCEPT !.out = Append(@, [op |-> i.op, id |-> i.id, row |-> i.row,
                                       col |-> i.col, val |-> Eval(i.val, st.env)])]
    [] OTHER -> st

RECURSIVE ExecInsts(_, _, _)
ExecInsts(insts, k, st) ==
  IF k > Len(insts) THEN st ELSE ExecInsts(insts, k + 1, Step(insts[k], st))

RECURSIVE PathInsts(_, _, _)
PathInsts(fn, path, k) ==
  IF k > Len(path) THEN <<>> ELSE fn[path[k]] \o PathInsts(fn, path, k + 1)

\* The output-stores executed along the path, with the values they carry.
Exec(fn, path) ==
  ExecInsts(PathInsts(fn, path, 1), 1, [mem |-> << >>, env |-> << >>, out |-> <<>>]).out

RECURSIVE PathsFrom(_, _)
PathsFrom(fn, b) ==
  LET term == fn[b][Len(fn[b])]
  IN  IF term.kind = "ret" THEN {<<b>>}
      ELSE UNION {{<<b>> \o p : p \in PathsFrom(fn, t)} : t \in term.targets}

Paths(fn) == PathsFrom(fn, 1)

----------------------------------------------------------------------------
(* Claims.                                                                 *)

\* C1 (completeness): after runOnFunction on a function with output writes,
\* for every output that had at least one original write and for every
\* return, the block of the return holds exactly one output-store per
\* coordinate (row, column) of the output's declared element.
\* Refuted by a function that writes a regular and a patch-constant output
\* with the same numeric identifier (see C3).
Completeness ==
  (pc = "done" /\ HasWrites(F0)) =>
    \A o \in Outputs(F0) : \A b \in RetBlocks(F) : \A rc \in Coords(Descriptor(o)) :
      Cardinality(StoresAt(F, b, o, rc[1], rc[2])) = 1

\* C2 (value fidelity): along every path to a return, every final
\* output-store carries the value of the last original write to the same
\* coordinate of the same output executed on that path, and the content of an
\* untouched slot element where the path holds no such write.
\* Refuted by the same functions as C3: a write to the other category's
\* output of equal identifier lands in the same slot.
ValueFidelity ==
  (pc = "done" /\ HasWrites(F0)) =>
    \A p \in Paths(F0) :
      LET before == Exec(F0, p)
          after  == Exec(F, p)
      IN  \A k \in DOMAIN after :
            LET e     == after[k]
                prior == SelectSeq(before, LAMBDA x : x.op = e.op /\ x.id = e.id
                                                     /\ x.row = e.row /\ x.col = e.col)
            IN  IF prior # <<>>
                  THEN e.val = prior[Len(prior)].val
                  ELSE e.val = Undef

BothCategories(fn) ==
  \E o1 \in Outputs(fn), o2 \in Outputs(fn) :
    o1.op = "StorePatchConstant" /\ o2.op = "StoreOutput"

\* C3 (category independence): when a function writes a patch-constant and a
\* regular output, two original writes are redirected into the same slot
\* exactly when they target the same output (same category and identifier),
\* the slot has the shape declared in the table of the write's own category,
\* and every written output is stored before every return with the
\* primitive of its category.
CategoryIndependence ==
  (pc = "done" /\ BothCategories(F0)) =>
    LET writes == Calls(F0)
        stores == NewOfKind(F0, F, "store")
    IN  /\ Len(stores) = Len(writes)
        /\ \A j \in DOMAIN writes, k \in DOMAIN writes :
             (SlotOf(F, stores[j]) = SlotOf(F, stores[k]))
               <=> (writes[j].op = writes[k].op /\ writes[j].id = writes[k].id)
        /\ \A k \in DOMAIN writes :
             LET d == Descriptor([op |-> writes[k].op, id |-> writes[k].id])
             IN  Deref(F, SlotOf(F, stores[k])).n = d.rows * d.cols
        /\ \A o \in Outputs(F0) : \A b \in RetBlocks(F) :
             \E i \in DOMAIN F[b] :
               F[b][i].kind = "call" /\ F[b][i].op = o.op /\ F[b][i].id = o.id

\* C4 (change reporting): the value runOnFunction returns is true exactly
\* when the function body differs from the one it was given.
ChangeReported == pc = "done" => (result <=> (F # F0))

\* C5 (no-op on empty input): a function without output writes is left
\* exactly as it was, no slot is registered for it, and the pass reports no
\* change.
NoOpOnEmpty ==
  (pc = "done" /\ ~HasWrites(F0)) =>
    (F = F0 /\ DOMAIN outputMap = {} /\ result = FALSE)

NoOpOnEmptyWitness ==
  /\ pc = "done"
  /\ ~HasWrites(F0)
  /\ Cardinality(RetBlocks(F0)) = 2
  /\ \E i \in DOMAIN Insts(F0) : Insts(F0)[i].kind = "other"

\* C6 (exact final-write count): the transformed function holds exactly
\* N * C output-stores, N its number of returns and C the total coordinate
\* count of the registered outputs; no collected write remains; every
\* output-store sits in a returning block with only inserted instructions
\* between it and the return; and every output-store targets an output that
\* had an original write.
ExactFinalWriteCount ==
  pc = "done" =>
    LET finals == Calls(F)
    IN  /\ Len(finals) = Cardinality(RetBlocks(F)) * TotalCoords(F0, WrittenIds(F0))
        /\ \A k \in DOMAIN Calls(F0) : ~HasInst(F, Calls(F0)[k].uid)
        /\ \A b \in DOMAIN F : \A i \in DOMAIN F[b] :
             F[b][i].kind = "call" =>
               /\ b \in RetBlocks(F)
               /\ \A j \in (i + 1)..(Len(F[b]) - 1) : IsNew(F0, F[b][j])
        /\ \A k \in DOMAIN finals :
             \E j \in DOMAIN Calls(F0) :
               Calls(F0)[j].op = finals[k].op /\ Calls(F0)[j].id = finals[k].id

ExactFinalWriteCountWitness ==
  /\ pc = "done"
  /\ Cardinality(RetBlocks(F)) = 2
  /\ WrittenIds(F0) = {0, 1}
  /\ Len(Calls(F0)) = 3
  /\ Len(Calls(F)) = 16

\* C7 (scratch-slot bijection): once the registry and the allocas exist,
\* the registry's keys are the identifiers of the collected writes, each key
\* has its own new alloca and there is no other new alloca, the descriptor
\* of a key is the one of the first collected write to it, and its alloca
\* holds rows * columns elements, as an array unless rows = columns = 1.
SlotBijection ==
  pc \in {"allocated", "redirected", "materialized", "done"} =>
    LET ids     == WrittenIds(F0)
        allocas == NewOfKind(F0, F, "alloca")
    IN  /\ DOMAIN outputMap = ids
        /\ Len(allocas) = Cardinality(ids)
        /\ \A id \in ids :
             LET d == FirstDescriptor(F0, id)
             IN  /\ outputMap[id].elem = d
                 /\ \E k \in DOMAIN allocas :
                      /\ allocas[k].uid = outputMap[id].alloca
                      /\ allocas[k].n = d.rows * d.cols
                      /\ allocas[k].isArray <=> ~(d.rows = 1 /\ d.cols = 1)
        /\ \A i \in ids, j \in ids :
             outputMap[i].alloca = outputMap[j].alloca => i = j

SlotBijectionWitness ==
  /\ pc = "allocated"
  /\ DOMAIN outputMap = {0, 1}
  /\ outputMap[1].elem.patchConstant
  /\ \E k \in DOMAIN Calls(F0) : Calls(F0)[k].id = 1 /\ Calls(F0)[k].op = "StoreOutput"

KeyOfSlot(uid) == CHOOSE k \in DOMAIN outputMap : outputMap[k].alloca = uid

Mark(kind, uid, id, val) == [kind |-> kind, uid |-> uid, id |-> id, val |-> val]

\* A block of the input: every write as a mark of its identifier and value,
\* every other instruction as itself.
SkeletonBefore(blk) ==
  [k \in DOMAIN blk |->
     IF blk[k].kind = "call"
       THEN Mark("write", 0, blk[k].id, blk[k].val)
       ELSE Mark("keep", blk[k].uid, 0, Undef)]

\* A block of the output: the instructions of the input that remain, and
\* every inserted store as a mark of the identifier of its slot and its value.
SkeletonAfter(blk) ==
  LET kept == SelectSeq(blk, LAMBDA i : ~IsNew(F0, i) \/ i.kind = "store")
  IN  [k \in DOMAIN kept |->
         IF IsNew(F0, kept[k])
           THEN Mark("write", 0, KeyOfSlot(SlotOf(F, kept[k])), kept[k].val)
           ELSE Mark("keep", kept[k].uid, 0, Undef)]

\* C8 (order preservation): block by block, the instructions that are not
\* output writes keep their order, and each redirected store stands, with
\* the value and the slot of the write it replaces, where that write stood
\* between them.
OrderPreserved ==
  (pc = "done" /\ HasWrites(F0)) =>
    /\ Len(F) = Len(F0)
    /\ \A b \in DOMAIN F : SkeletonAfter(F[b]) = SkeletonBefore(F0[b])

OrderPreservedWitness ==
  /\ pc = "done"
  /\ Len(F0[1]) = 3
  /\ F0[1][1].kind = "call"
  /\ F0[1][2].kind = "other"
  /\ Len(F0) = 3
  /\ Len(F0[2]) = 2 /\ F0[2][1].kind = "call"
  /\ Len(F0[3]) = 2 /\ F0[3][1].kind = "other"

\* C9 (index normalization): the pass never fails on an operand width, and
\* for an aggregate output the index of the slot element a redirected write
\* stores to is row * columns + column computed on the row and the column
\* both brought to 32 bits (cut when wider, zero-filled when narrower), the
\* element the final load of that coordinate reads.
IndexNormalization ==
  /\ pc # "aborted"
  /\ (pc \in {"redirected", "materialized", "done"} /\ HasWrites(F0)) =>
       LET writes == Calls(F0)
           stores == NewOfKind(F0, F, "store")
       IN  \A k \in DOMAIN writes :
             LET d == FirstDescriptor(F0, writes[k].id)
                 a == Deref(F, stores[k].addr)
             IN  d.rows * d.cols > 1 =>
                   /\ a.kind = "gep"
                   /\ a.index = CreateAdd(CreateMul(Norm32(writes[k].row), ConstInt(32, d.cols)),
                                          Norm32(writes[k].col))
                   /\ pc = "done" =>
                        \A j \in DOMAIN Insts(F) :
                          LET fc == Insts(F)[j]
                          IN  (fc.kind = "call" /\ Norm32(fc.row) = Norm32(writes[k].row)
                                 /\ Norm32(fc.col) = Norm32(writes[k].col)) =>
                                Deref(F, Deref(F, fc.val.uid).addr).index = a.index

\* C10 (re-invocation): a further invocation collects every output-store of
\* the function it is given; when that function has output-stores, the
\* result differs from it, keeps its allocas and holds one more alloca per
\* identifier, every
\* store collected is erased and replaced by a store of its value into one
\* of the new allocas, and every returning block again holds exactly one
\* output-store per coordinate of every output.
ReinvocationRewraps ==
  /\ (run >= 2 /\ pc = "collected") =>
        /\ Len(outputStores) = Len(Calls(F))
        /\ \A k \in DOMAIN outputStores : outputStores[k].call = Calls(F)[k].uid
  /\ (run >= 2 /\ pc = "done" /\ HasWrites(F0)) =>
       LET olds   == Calls(F0)
           stores == NewOfKind(F0, F, "store")
       IN  /\ F # F0
           /\ Len(NewOfKind(F0, F, "alloca")) = Cardinality(WrittenIds(F0))
           /\ \A i \in DOMAIN Insts(F0) :
                Insts(F0)[i].kind = "alloca" => HasInst(F, Insts(F0)[i].uid)
           /\ Len(stores) = Len(olds)
           /\ \A k \in DOMAIN olds :
                /\ ~HasInst(F, olds[k].uid)
                /\ stores[k].val = olds[k].val
                /\ IsNew(F0, Deref(F, SlotOf(F, stores[k])))
           /\ \A o \in Outputs(F0) : \A b \in RetBlocks(F) :
                \A rc \in Coords(Descriptor(o)) :
                  Cardinality(StoresAt(F, b, o, rc[1], rc[2])) = 1
           /\ Len(Calls(F)) = Len(olds)

ReinvocationRewrapsWitness ==
  /\ run = 2
  /\ pc = "done"
  /\ Cardinality(RetBlocks(F)) = 2
  /\ Len(Calls(F0)) = 16

====
